---- MODULE Spec2Model ----
(***************************************************************************)
(* A model of solana-tss: the wire codec of src/src/serialization.rs, the  *)
(* commitment check AggMessage1::verify_commitment, and the three-round    *)
(* aggregate-signing ceremony driven by the commands of src/src/cli.rs.    *)
(*                                                                         *)
(* Bytes are 0..255 and buffers are sequences of bytes with the sizes of   *)
(* the source (96, 128, 64, 160, 72 + count*96).  A usize is kept as its   *)
(* eight little-endian bytes, so that 64-bit overflow is computed at full  *)
(* width.  A BigInt is its big-endian byte string without leading zeros.   *)
(* The Ed25519 group is replaced by the cyclic group of order GroupOrder;  *)
(* a point k*G is the number k, and its negation GroupOrder - k has the    *)
(* same y coordinate and the opposite x sign.                              *)
(***************************************************************************)
EXTENDS Integers, Sequences, FiniteSets, TLC

VARIABLES
    \* ---- codec harness: one value, its buffer, the decoded result ----
    ctype,      \* which of the five wire types is exercised
    cval,       \* the value that was serialized (NoValue before)
    cbuf,       \* the byte buffer handed to deserialize
    ctext,      \* the base-58 text of the buffer (<<>> when not produced)
    cstage,     \* "idle", "serialized", "counted", "edited", "extended",
                \* "filled" or "text": how the buffer came about
    cres,       \* the result of the last deserialize (tag "None" before)
    \* ---- ceremony: what the commands printed and what the user holds ----
    firstMsgs,  \* FirstMessages (AggMessage1) printed by agg-send-step-one
    secrets1,   \* SecretAggStepOne values printed by agg-send-step-one
    secondMsgs, \* SecondMessages (AggMessage2) in circulation
    secrets2,   \* SecretAggStepTwo values printed by agg-send-step-two
    sigs,       \* log of agg-send-step-three invocations and their outcome
    phase,      \* per party: Start, Committed, Revealed, Signed
    aggOut,     \* outputs of the aggregate-keys command
    \* ---- commitment harness: one commitment and one attempt to open it ----
    committed,  \* [R, blind_factor, first] or NoValue
    opened      \* [R, blind_factor, ok] or NoValue

cvars == <<ctype, cval, cbuf, ctext, cstage, cres>>
pvars == <<firstMsgs, secrets1, secondMsgs, secrets2, sigs, phase, aggOut>>
hvars == <<committed, opened>>
vars == <<ctype, cval, cbuf, ctext, cstage, cres,
          firstMsgs, secrets1, secondMsgs, secrets2, sigs, phase, aggOut,
          committed, opened>>

(***************************************************************************)
(* Bounds of the model.                                                    *)
(***************************************************************************)
MaxTrailing == 2        \* bytes appended after a complete encoding
MaxFirstMessages == 2   \* length of SecretAggStepTwo.first_messages
MaxSessions == 1        \* Round 1 invocations of one party
MaxStepTwo == 2         \* Round 2 invocations, all parties together
MaxStepThree == 2       \* Round 3 invocations, all parties together

(***************************************************************************)
(* Byte strings and slices.                                                *)
(***************************************************************************)
Fill(n, v) == [i \in 1..n |-> v]

\* &b[lo..hi] with zero-based half-open bounds, as in the source.
Slice(b, lo, hi) == SubSeq(b, lo + 1, hi)

\* &b[lo..]
SliceFrom(b, lo) == SubSeq(b, lo + 1, Len(b))

\* Results: Ok(v), an Error of serialization.rs, or a panic of the process.
Ok(v) == [tag |-> "Ok", val |-> v]
InputTooShort(expected, found) ==
    [tag |-> "InputTooShort", expected |-> expected, found |-> found]
InvalidPoint == [tag |-> "InvalidPoint"]
InvalidScalar == [tag |-> "InvalidScalar"]
BadBase58 == [tag |-> "BadBase58"]
Panic == [tag |-> "Panic"]
NoResult == [tag |-> "None"]

(***************************************************************************)
(* usize / u64: eight little-endian bytes.                                 *)
(***************************************************************************)
RECURSIVE LeBytes(_, _)
LeBytes(n, width) ==
    IF width = 0 THEN <<>> ELSE <<n % 256>> \o LeBytes(n \div 256, width - 1)

\* A small number as a usize.
Usize(n) == LeBytes(n, 8)

\* a * k for a usize a and a small k: the wrapped product and the overflow flag.
RECURSIVE MulCarry(_, _, _, _)
MulCarry(a, k, i, carry) ==
    IF i > Len(a) THEN [val |-> <<>>, overflow |-> carry # 0]
    ELSE LET cur == a[i] * k + carry
             rest == MulCarry(a, k, i + 1, cur \div 256)
         IN [val |-> <<cur % 256>> \o rest.val, overflow |-> rest.overflow]

UsizeMul(a, k) == MulCarry(a, k, 1, 0)

RECURSIVE AddCarry(_, _, _, _)
AddCarry(a, b, i, carry) ==
    IF i > Len(a) THEN [val |-> <<>>, overflow |-> carry # 0]
    ELSE LET cur == a[i] + b[i] + carry
             rest == AddCarry(a, b, i + 1, cur \div 256)
         IN [val |-> <<cur % 256>> \o rest.val, overflow |-> rest.overflow]

UsizeAdd(a, b) == AddCarry(a, b, 1, 0)

\* a < b, compared from the most significant byte.
RECURSIVE LessFrom(_, _, _)
LessFrom(a, b, i) ==
    IF i = 0 THEN FALSE
    ELSE IF a[i] # b[i] THEN a[i] < b[i]
    ELSE LessFrom(a, b, i - 1)

UsizeLess(a, b) == LessFrom(a, b, Len(a))

\* The value of a usize below 2^24, and whether it is that small.
UsizeIsSmall(a) == \A i \in 4..Len(a) : a[i] = 0
UsizeSmall(a) == a[1] + 256 * a[2] + 65536 * a[3]

(***************************************************************************)
(* curv::BigInt as a big-endian byte string without leading zeros.         *)
(***************************************************************************)
BigInt_from_bytes(s) ==
    LET nz == {i \in 1..Len(s) : s[i] # 0}
    IN IF nz = {} THEN <<>>
       ELSE SubSeq(s, CHOOSE i \in nz : \A j \in nz : i <= j, Len(s))

\* BigInt::to_bytes(): big-endian without leading zeros; zero is one 0 byte.
BigInt_to_bytes(x) == IF x = <<>> THEN <<0>> ELSE x

\* BigInt::to_bytes_array::<N>().expect(..): left-padded, or a panic.
BigInt_to_bytes_array(x, n) ==
    IF Len(x) > n THEN Panic ELSE Ok(Fill(n - Len(x), 0) \o x)

(***************************************************************************)
(* The group: scalars and points.                                          *)
(***************************************************************************)
GroupOrder == 37

Scalars == 0..(GroupOrder - 1)
Points == 0..(GroupOrder - 1)

PointAdd(P, Q) == (P + Q) % GroupOrder
PointNeg(P) == (GroupOrder - P) % GroupOrder
ScalarMulPoint(k, P) == (k * P) % GroupOrder
BasePointMul(k) == k % GroupOrder

\* The y coordinate is shared by P and -P; the x sign tells them apart.
YCoord(P) == IF 2 * P > GroupOrder THEN GroupOrder - P ELSE P
XSign(P) == IF 2 * P > GroupOrder THEN 1 ELSE 0

\* Point::y_coord(): the y coordinate as a BigInt.
Point_y_coord(P) == BigInt_from_bytes(<<YCoord(P)>>)

\* Point::to_bytes(true): y little-endian, the x sign in the top bit.
Point_to_bytes(P) == <<YCoord(P)>> \o Fill(30, 0) \o <<128 * XSign(P)>>

Point_from_bytes(b) ==
    IF /\ Len(b) = 32
       /\ \A i \in 2..31 : b[i] = 0
       /\ b[32] \in {0, 128}
       /\ 2 * b[1] < GroupOrder
       /\ ~(b[1] = 0 /\ b[32] = 128)
    THEN Ok(IF b[32] = 0 THEN b[1] ELSE GroupOrder - b[1])
    ELSE InvalidPoint

\* Scalar::to_bytes / Scalar::from_bytes: 32 bytes, little-endian, canonical.
Scalar_to_bytes(k) == <<k>> \o Fill(31, 0)

Scalar_from_bytes(b) ==
    IF Len(b) = 32 /\ b[1] < GroupOrder /\ \A i \in 2..32 : b[i] = 0
    THEN Ok(b[1])
    ELSE InvalidScalar

\* Pubkey::new(slice): exactly 32 bytes, or a panic.
Pubkey_new(s) == IF Len(s) = 32 THEN Ok(s) ELSE Panic

\* Signature::new(slice): 64 bytes.
Signature_new(s) == s
(***************************************************************************)
(* bs58: the base-58 text form (Bitcoin alphabet).                         *)
(***************************************************************************)
Alphabet ==
    << "1", "2", "3", "4", "5", "6", "7", "8", "9",
       "A", "B", "C", "D", "E", "F", "G", "H", "J", "K", "L", "M", "N", "P",
       "Q", "R", "S", "T", "U", "V", "W", "X", "Y", "Z",
       "a", "b", "c", "d", "e", "f", "g", "h", "i", "j", "k", "m", "n", "o",
       "p", "q", "r", "s", "t", "u", "v", "w", "x", "y", "z" >>

\* The number of leading elements of s equal to v.
LeadingCount(s, v) ==
    LET other == {i \in 1..Len(s) : s[i] # v}
    IN IF other = {} THEN Len(s)
       ELSE (CHOOSE i \in other : \A j \in other : i <= j) - 1

\* Long division by 58 of the digits lo..hi of a big-endian base-256 number,
\* entered with remainder rem: the quotient digits and the remainder left.
RECURSIVE DivMod58(_, _, _, _)
DivMod58(num, lo, hi, rem) ==
    IF lo > hi THEN [quot |-> <<>>, rem |-> rem]
    ELSE IF lo = hi
    THEN LET cur == rem * 256 + num[lo]
         IN [quot |-> <<cur \div 58>>, rem |-> cur % 58]
    ELSE LET mid == (lo + hi) \div 2
             left == DivMod58(num, lo, mid, rem)
             right == DivMod58(num, mid + 1, hi, left.rem)
         IN [quot |-> left.quot \o right.quot, rem |-> right.rem]

\* One digit of the text: the number is divided by 58, the remainder is the
\* next character from the right.
Base58Step(st) ==
    IF st.num = <<>> THEN st
    ELSE LET dm == DivMod58(st.num, 1, Len(st.num), 0)
         IN [num |-> BigInt_from_bytes(dm.quot),
             text |-> <<Alphabet[dm.rem + 1]>> \o st.text]

RECURSIVE Base58Steps(_, _)
Base58Steps(st, k) ==
    IF k = 0 \/ st.num = <<>> THEN st
    ELSE IF k = 1 THEN Base58Step(st)
    ELSE Base58Steps(Base58Steps(st, k \div 2), k - (k \div 2))

\* bs58::encode(bytes).into_string()
bs58_encode(bytes) ==
    LET zeros == LeadingCount(bytes, 0)
        num == BigInt_from_bytes(bytes)
    IN Fill(zeros, "1")
       \o Base58Steps([num |-> num, text |-> <<>>], 2 * Len(num)).text

\* num * 58 + carry on the digits lo..hi of a little-endian base-256 number.
RECURSIVE MulAdd58(_, _, _, _)
MulAdd58(num, lo, hi, carry) ==
    IF lo > hi THEN [val |-> <<>>, carry |-> carry]
    ELSE IF lo = hi
    THEN LET cur == num[lo] * 58 + carry
         IN [val |-> <<cur % 256>>, carry |-> cur \div 256]
    ELSE LET mid == (lo + hi) \div 2
             left == MulAdd58(num, lo, mid, carry)
             right == MulAdd58(num, mid + 1, hi, left.carry)
         IN [val |-> left.val \o right.val, carry |-> right.carry]

\* One character of the text is pushed into the little-endian number.
Base58Push(text, st) ==
    IF st.i > Len(text) THEN st
    ELSE LET d == (CHOOSE k \in 1..58 : Alphabet[k] = text[st.i]) - 1
             ma == MulAdd58(st.num, 1, Len(st.num), d)
         IN [i |-> st.i + 1,
             num |-> IF ma.carry = 0 THEN ma.val ELSE Append(ma.val, ma.carry)]

RECURSIVE Base58Pushes(_, _, _)
Base58Pushes(text, st, k) ==
    IF k = 0 \/ st.i > Len(text) THEN st
    ELSE IF k = 1 THEN Base58Push(text, st)
    ELSE Base58Pushes(text, Base58Pushes(text, st, k \div 2), k - (k \div 2))

Reverse(s) == [i \in 1..Len(s) |-> s[Len(s) + 1 - i]]

\* bs58::decode(text).into_vec()
bs58_decode(text) ==
    IF \E i \in 1..Len(text) : \A k \in 1..58 : Alphabet[k] # text[i]
    THEN BadBase58
    ELSE LET zeros == LeadingCount(text, "1")
         IN Ok(Fill(zeros, 0)
               \o Reverse(Base58Pushes(text, [i |-> zeros + 1, num |-> <<>>],
                                      Len(text)).num))

(***************************************************************************)
(* AggMessage1 = [msg |-> [commitment], sender]                            *)
(***************************************************************************)
\* Variant: the commitment is written with BigInt::to_bytes(), unpadded.
AggMessage1_serialize_unpadded(x) ==
    Ok(x.msg.commitment \o x.sender)

AggMessage1_serialize(x) ==
    LET c_bytes == BigInt_to_bytes_array(x.msg.commitment, 64)
    IN IF c_bytes.tag # "Ok" THEN Panic
       ELSE Ok(c_bytes.val \o x.sender)

AggMessage1_deserialize(b) ==
    IF Len(b) < 64 + 32
    THEN InputTooShort(Usize(64 + 32), Usize(Len(b)))
    ELSE LET commitment == BigInt_from_bytes(Slice(b, 0, 64))
             sender == Pubkey_new(Slice(b, 64, 64 + 32))
         IN IF sender.tag # "Ok" THEN sender
            ELSE Ok([msg |-> [commitment |-> commitment], sender |-> sender.val])

(***************************************************************************)
(* AggMessage2 = [msg |-> [R, blind_factor], sender]                       *)
(***************************************************************************)
AggMessage2_serialize(x) ==
    LET blind_bytes == BigInt_to_bytes_array(x.msg.blind_factor, 64)
    IN IF blind_bytes.tag # "Ok" THEN Panic
       ELSE Ok(Point_to_bytes(x.msg.R) \o blind_bytes.val \o x.sender)

AggMessage2_deserialize(b) ==
    IF Len(b) < 32 + 64 + 32
    THEN InputTooShort(Usize(32 + 64 + 32), Usize(Len(b)))
    ELSE LET msg_nonce == Point_from_bytes(Slice(b, 0, 32))
             blind_factor == BigInt_from_bytes(Slice(b, 32, 32 + 64))
             sender == Pubkey_new(SliceFrom(b, 32 + 64))
         IN IF msg_nonce.tag # "Ok" THEN msg_nonce
            ELSE IF sender.tag # "Ok" THEN sender
            ELSE Ok([msg |-> [R |-> msg_nonce.val, blind_factor |-> blind_factor],
                     sender |-> sender.val])

(***************************************************************************)
(* PartialSignature = the 64 bytes of a Signature                          *)
(***************************************************************************)
PartialSignature_serialize(x) == Ok(x)

PartialSignature_deserialize(b) ==
    IF Len(b) < 64
    THEN InputTooShort(Usize(64), Usize(Len(b)))
    ELSE Ok(Signature_new(Slice(b, 0, 64)))

(***************************************************************************)
(* SecretAggStepOne = [ephemeral |-> [r, R], second_msg |-> [R, blind]]    *)
(***************************************************************************)
SecretAggStepOne_serialize(x) ==
    LET blind_bytes == BigInt_to_bytes_array(x.second_msg.blind_factor, 64)
    IN IF blind_bytes.tag # "Ok" THEN Panic
       ELSE Ok(Scalar_to_bytes(x.ephemeral.r) \o Point_to_bytes(x.ephemeral.R)
               \o Point_to_bytes(x.second_msg.R) \o blind_bytes.val)

\* Variant: the length check forgets the 64 bytes of the blinding factor.
SecretAggStepOne_deserialize_short(b) ==
    IF Len(b) < 32 + 32 + 32
    THEN InputTooShort(Usize(32 + 32 + 32), Usize(Len(b)))
    ELSE LET r == Scalar_from_bytes(Slice(b, 0, 32))
             ephemeral_nonce == Point_from_bytes(Slice(b, 32, 64))
             second_msg_nonce == Point_from_bytes(Slice(b, 64, 64 + 32))
             blind_factor == BigInt_from_bytes(SliceFrom(b, 64 + 32))
         IN IF r.tag # "Ok" THEN r
            ELSE IF ephemeral_nonce.tag # "Ok" THEN ephemeral_nonce
            ELSE IF second_msg_nonce.tag # "Ok" THEN second_msg_nonce
            ELSE Ok([second_msg |-> [R |-> second_msg_nonce.val,
                                     blind_factor |-> blind_factor],
                     ephemeral |-> [R |-> ephemeral_nonce.val, r |-> r.val]])

SecretAggStepOne_deserialize(b) ==
    IF Len(b) < 32 + 32 + 32 + 64
    THEN InputTooShort(Usize(32 + 32 + 32 + 64), Usize(Len(b)))
    ELSE LET r == Scalar_from_bytes(Slice(b, 0, 32))
             ephemeral_nonce == Point_from_bytes(Slice(b, 32, 64))
             second_msg_nonce == Point_from_bytes(Slice(b, 64, 64 + 32))
             blind_factor == BigInt_from_bytes(SliceFrom(b, 64 + 32))
         IN IF r.tag # "Ok" THEN r
            ELSE IF ephemeral_nonce.tag # "Ok" THEN ephemeral_nonce
            ELSE IF second_msg_nonce.tag # "Ok" THEN second_msg_nonce
            ELSE Ok([second_msg |-> [R |-> second_msg_nonce.val,
                                     blind_factor |-> blind_factor],
                     ephemeral |-> [R |-> ephemeral_nonce.val, r |-> r.val]])

(***************************************************************************)
(* SecretAggStepTwo = [ephemeral |-> [r, R], first_messages]               *)
(***************************************************************************)
RECURSIVE SerializeFirstMessages(_, _)
SerializeFirstMessages(msgs, i) ==
    IF i > Len(msgs) THEN Ok(<<>>)
    ELSE LET c_bytes == BigInt_to_bytes_array(msgs[i].msg.commitment, 64)
             rest == SerializeFirstMessages(msgs, i + 1)
         IN IF c_bytes.tag # "Ok" \/ rest.tag # "Ok" THEN Panic
            ELSE Ok(c_bytes.val \o msgs[i].sender \o rest.val)

SecretAggStepTwo_serialize(x) ==
    LET msgs == SerializeFirstMessages(x.first_messages, 1)
    IN IF msgs.tag # "Ok" THEN Panic
       ELSE Ok(Scalar_to_bytes(x.ephemeral.r) \o Point_to_bytes(x.ephemeral.R)
               \o Usize(Len(x.first_messages)) \o msgs.val)

\* overflow_checks: the build panics on arithmetic overflow (a debug build)
\* instead of wrapping (a release build).
SecretAggStepTwo_deserialize(b, overflow_checks) ==
    IF Len(b) < 32 + 32 + 8
    THEN InputTooShort(Usize(32 + 32 + 8), Usize(Len(b)))
    ELSE LET ephemeral_nonce == Scalar_from_bytes(Slice(b, 0, 32))
             ephemeral_public_nonce == Point_from_bytes(Slice(b, 32, 64))
             len_first_messages == Slice(b, 64, 64 + 8)
             product == UsizeMul(len_first_messages, 64 + 32)
             expected_len == UsizeAdd(Usize(32 + 32 + 8), product.val)
             rest == SliceFrom(b, 64 + 8)
         IN IF ephemeral_nonce.tag # "Ok" THEN ephemeral_nonce
            ELSE IF ephemeral_public_nonce.tag # "Ok" THEN ephemeral_public_nonce
            ELSE IF overflow_checks /\ (product.overflow \/ expected_len.overflow)
            THEN Panic
            ELSE IF UsizeLess(Usize(Len(b)), expected_len.val)
            THEN InputTooShort(expected_len.val, Usize(Len(b)))
            \* collecting len_first_messages items: the allocation or the
            \* slice index panics when the buffer does not hold them all
            ELSE IF \/ ~UsizeIsSmall(len_first_messages)
                    \/ UsizeSmall(len_first_messages) * (64 + 32) > Len(rest)
            THEN Panic
            ELSE Ok([first_messages |->
                        [i \in 1..UsizeSmall(len_first_messages) |->
                            LET slice == SliceFrom(rest, (i - 1) * (64 + 32))
                            IN [msg |-> [commitment |->
                                            BigInt_from_bytes(Slice(slice, 0, 64))],
                                sender |-> Slice(slice, 64, 64 + 32)]],
                     ephemeral |-> [R |-> ephemeral_public_nonce.val,
                                    r |-> ephemeral_nonce.val]])

(***************************************************************************)
(* The Serialize trait, by wire type.                                      *)
(***************************************************************************)
WireTypes == {"AggMessage1", "AggMessage2", "PartialSignature",
              "SecretAggStepOne", "SecretAggStepTwo"}

serialize(t, x) ==
    CASE t = "AggMessage1" -> AggMessage1_serialize(x)
      [] t = "AggMessage2" -> AggMessage2_serialize(x)
      [] t = "PartialSignature" -> PartialSignature_serialize(x)
      [] t = "SecretAggStepOne" -> SecretAggStepOne_serialize(x)
      [] t = "SecretAggStepTwo" -> SecretAggStepTwo_serialize(x)

deserialize(t, b, overflow_checks) ==
    CASE t = "AggMessage1" -> AggMessage1_deserialize(b)
      [] t = "AggMessage2" -> AggMessage2_deserialize(b)
      [] t = "PartialSignature" -> PartialSignature_deserialize(b)
      [] t = "SecretAggStepOne" -> SecretAggStepOne_deserialize(b)
      [] t = "SecretAggStepTwo" -> SecretAggStepTwo_deserialize(b, overflow_checks)

serialize_bs58(t, x) ==
    LET vec == serialize(t, x)
    IN IF vec.tag # "Ok" THEN Panic ELSE Ok(bs58_encode(vec.val))

deserialize_bs58(t, s, overflow_checks) ==
    LET out == bs58_decode(s)
    IN IF out.tag # "Ok" THEN out ELSE deserialize(t, out.val, overflow_checks)
(***************************************************************************)
(* Codec harness: values of the five wire types are serialized, the buffer *)
(* is optionally cut, extended or given another count field, and is then   *)
(* deserialized, directly or through the base-58 text.                     *)
(***************************************************************************)
NoValue == [tag |-> "NoValue"]

SampleSenders == {Fill(32, 0), Fill(32, 255), Point_to_bytes(3)}
SampleBigInts == {<<>>, <<5>>, Fill(64, 255)}
SampleMsg1 ==
    {[msg |-> [commitment |-> c], sender |-> s] :
        c \in SampleBigInts, s \in {Fill(32, 255), Point_to_bytes(3)}}

RECURSIVE SeqsUpTo(_, _)
SeqsUpTo(S, n) ==
    IF n = 0 THEN {<<>>}
    ELSE LET shorter == SeqsUpTo(S, n - 1)
         IN shorter \cup {Append(q, x) : q \in shorter, x \in S}

SampleFirstMessages ==
    SeqsUpTo({m \in SampleMsg1 : m.sender = Point_to_bytes(3)
                                 /\ m.msg.commitment # <<>>},
             MaxFirstMessages)

CodecValues(t) ==
    CASE t = "AggMessage1" ->
            {[msg |-> [commitment |-> c], sender |-> s] :
                c \in SampleBigInts, s \in SampleSenders}
      [] t = "AggMessage2" ->
            {[msg |-> [R |-> R, blind_factor |-> bf], sender |-> s] :
                R \in {0, 2, 5}, bf \in SampleBigInts,
                s \in {Fill(32, 255), Point_to_bytes(3)}}
      [] t = "PartialSignature" ->
            {Fill(64, 0), Fill(64, 255), Point_to_bytes(5) \o Scalar_to_bytes(4)}
      [] t = "SecretAggStepOne" ->
            {[ephemeral |-> [r |-> r, R |-> BasePointMul(r)],
              second_msg |-> [R |-> R2, blind_factor |-> bf]] :
                r \in {1, 6}, R2 \in {1, 6}, bf \in SampleBigInts}
      [] t = "SecretAggStepTwo" ->
            {[ephemeral |-> [r |-> r, R |-> BasePointMul(r)],
              first_messages |-> fm] :
                r \in {1, 6}, fm \in SampleFirstMessages}

\* Count fields written over bytes 64..72: small counts, counts whose product
\* with 96 wraps to a small number, and the largest u64.
SampleCounts ==
    {Usize(0), Usize(1), Usize(2), Usize(3),
     <<0, 0, 0, 0, 0, 0, 0, 8>>, <<1, 0, 0, 0, 0, 0, 0, 8>>,
     <<0, 0, 0, 0, 1, 0, 0, 0>>, <<0, 0, 0, 0, 0, 0, 0, 128>>,
     Fill(8, 255)}

\* The fixed part of each wire type: the length its first check requires.
MinSize(t) ==
    CASE t = "AggMessage1" -> 64 + 32
      [] t = "AggMessage2" -> 32 + 64 + 32
      [] t = "PartialSignature" -> 64
      [] t = "SecretAggStepOne" -> 32 + 32 + 32 + 64
      [] t = "SecretAggStepTwo" -> 32 + 32 + 8

CodecInit ==
    /\ ctype = "AggMessage1"
    /\ cval = NoValue
    /\ cbuf = <<>>
    /\ ctext = <<>>
    /\ cstage = "idle"
    /\ cres = NoResult

\* x.serialize(&mut vec)
CodecSerialize(t, x) ==
    /\ cstage = "idle"
    /\ ctype' = t
    /\ cval' = x
    /\ cbuf' = serialize(t, x).val
    /\ ctext' = <<>>
    /\ cstage' = "serialized"
    /\ cres' = NoResult
    /\ UNCHANGED <<pvars, hvars>>

\* A buffer of n equal bytes, as the tests fill theirs.
CodecFill(t, n, v) ==
    /\ cstage = "idle"
    /\ ctype' = t
    /\ cval' = NoValue
    /\ cbuf' = Fill(n, v)
    /\ ctext' = <<>>
    /\ cstage' = "filled"
    /\ cres' = NoResult
    /\ UNCHANGED <<pvars, hvars>>

\* The count field of a SecretAggStepTwo buffer is replaced.
CodecSetCount(c) ==
    /\ cstage = "serialized" /\ cres = NoResult
    /\ ctype = "SecretAggStepTwo"
    /\ c # Slice(cbuf, 64, 72)
    /\ cbuf' = Slice(cbuf, 0, 64) \o c \o SliceFrom(cbuf, 72)
    /\ cstage' = "counted"
    /\ UNCHANGED <<ctype, cval, ctext, cres, pvars, hvars>>

\* The buffer is cut to its first n bytes.
CodecTruncate(n) ==
    /\ cstage = "serialized" /\ cres = NoResult
    /\ n < Len(cbuf)
    /\ cbuf' = Slice(cbuf, 0, n)
    /\ cstage' = "edited"
    /\ UNCHANGED <<ctype, cval, ctext, cres, pvars, hvars>>

\* A byte is appended after the encoding.
CodecAppend(v) ==
    /\ cstage \in {"serialized", "counted", "extended"} /\ cres = NoResult
    /\ cval # NoValue
    /\ Len(cbuf) < Len(serialize(ctype, cval).val) + MaxTrailing
    /\ cbuf' = Append(cbuf, v)
    /\ cstage' = "extended"
    /\ UNCHANGED <<ctype, cval, ctext, cres, pvars, hvars>>

\* T::deserialize(&buf)
CodecDeserialize(overflow_checks) ==
    /\ cstage \in {"serialized", "counted", "edited", "extended", "filled"}
    /\ cres = NoResult
    /\ cres' = deserialize(ctype, cbuf, overflow_checks)
    /\ UNCHANGED <<ctype, cval, cbuf, ctext, cstage, pvars, hvars>>

\* x.serialize_bs58()
CodecSerializeBs58 ==
    /\ cstage = "serialized" /\ cres = NoResult
    /\ ctext' = serialize_bs58(ctype, cval).val
    /\ cstage' = "text"
    /\ UNCHANGED <<ctype, cval, cbuf, cres, pvars, hvars>>

\* T::deserialize_bs58(text)
CodecDeserializeBs58(overflow_checks) ==
    /\ cstage = "text" /\ cres = NoResult
    /\ cres' = deserialize_bs58(ctype, ctext, overflow_checks)
    /\ UNCHANGED <<ctype, cval, cbuf, ctext, cstage, pvars, hvars>>

\* The next invocation starts from nothing: the program keeps no state.
CodecReset ==
    /\ cres # NoResult
    /\ ctype' = "AggMessage1"
    /\ cval' = NoValue
    /\ cbuf' = <<>>
    /\ ctext' = <<>>
    /\ cstage' = "idle"
    /\ cres' = NoResult
    /\ UNCHANGED <<pvars, hvars>>

CodecNext ==
    \/ /\ cstage = "idle"
       /\ \E t \in WireTypes : \E x \in CodecValues(t) : CodecSerialize(t, x)
    \/ /\ cstage = "idle"
       /\ \E t \in WireTypes : \E n \in 0..MinSize(t) : \E v \in {0, 255} :
             CodecFill(t, n, v)
    \/ /\ cstage = "serialized"
       /\ \E c \in SampleCounts : CodecSetCount(c)
    \/ /\ cstage = "serialized"
       /\ \E n \in 0..Len(cbuf) : CodecTruncate(n)
    \/ \E v \in {0, 7} : CodecAppend(v)
    \/ \E oc \in BOOLEAN : CodecDeserialize(oc)
    \/ CodecSerializeBs58
    \/ \E oc \in BOOLEAN : CodecDeserializeBs58(oc)
    \/ CodecReset

(***************************************************************************)
(* The commitment scheme.                                                  *)
(***************************************************************************)
\* SHA-512 over the bytes of the two BigInts, fed to the hasher one after the
\* other with nothing between them.  The digest is collision-free: it keeps
\* every byte that was hashed, leading zeros included, behind a first byte
\* that is never zero; it does not record where the first number ends.
Sha512Digest(message, blinding) ==
    <<1>> \o BigInt_to_bytes(message) \o BigInt_to_bytes(blinding)

\* HashCommitment::create_commitment_with_user_defined_randomness
create_commitment_with_user_defined_randomness(message, blinding_factor) ==
    BigInt_from_bytes(Sha512Digest(message, blinding_factor))

\* Variant: the two arguments of the commitment are passed in the other order.
verify_commitment_swapped(self, msg2) ==
    create_commitment_with_user_defined_randomness(
        msg2.msg.blind_factor, Point_y_coord(msg2.msg.R)) = self.msg.commitment

\* AggMessage1::verify_commitment(&self, msg2)
verify_commitment(self, msg2) ==
    create_commitment_with_user_defined_randomness(
        Point_y_coord(msg2.msg.R), msg2.msg.blind_factor) = self.msg.commitment

SampleBlinds == {<<>>, <<4>>, <<8>>, <<4, 0>>, <<1, 4>>}

CommitInit ==
    /\ committed = NoValue
    /\ opened = NoValue

\* Round 1 computes the commitment to (R, blind_factor).
Commit(R, bf) ==
    /\ committed = NoValue
    /\ committed' =
          [R |-> R, blind_factor |-> bf,
           first |-> [msg |-> [commitment |->
                        create_commitment_with_user_defined_randomness(
                            Point_y_coord(R), bf)],
                      sender |-> Point_to_bytes(3)]]
    /\ UNCHANGED <<opened, cvars, pvars>>

\* Round 3 opens the commitment with a revealed (R, blind_factor).
Open(R, bf) ==
    /\ committed # NoValue
    /\ opened = NoValue
    /\ opened' =
          [R |-> R, blind_factor |-> bf,
           ok |-> verify_commitment(
                      committed.first,
                      [msg |-> [R |-> R, blind_factor |-> bf],
                       sender |-> Point_to_bytes(3)])]
    /\ UNCHANGED <<committed, cvars, pvars>>

CommitReset ==
    /\ opened # NoValue
    /\ committed' = NoValue
    /\ opened' = NoValue
    /\ UNCHANGED <<cvars, pvars>>

CommitNext ==
    \/ \E R \in Points : \E bf \in SampleBlinds : Commit(R, bf)
    \/ \E R \in Points : \E bf \in SampleBlinds : Open(R, bf)
    \/ CommitReset

(***************************************************************************)
(* Key and nonce aggregation, partial signing, combination, verification.  *)
(***************************************************************************)
Parties == {1, 2}

\* The long-term key of each party: the secret scalar and the 32-byte Pubkey.
SecretKey(p) == p + 1
PublicKey(p) == BasePointMul(SecretKey(p))
Pubkey(p) == Point_to_bytes(PublicKey(p))

\* The orders in which the participant keys can be listed on the command line.
KeyLists == {<<Pubkey(1), Pubkey(2)>>, <<Pubkey(2), Pubkey(1)>>}

\* Byte strings of equal length in lexicographic order.
BytesLess(a, b) ==
    \E i \in 1..Len(a) :
        /\ a[i] < b[i]
        /\ \A j \in 1..(i - 1) : a[j] = b[j]

\* The canonical order of a key list: sorted by the key bytes.
SortKeys(keys) ==
    CHOOSE sorted \in [1..Len(keys) -> {keys[i] : i \in 1..Len(keys)}] :
        /\ \A k \in {keys[i] : i \in 1..Len(keys)} :
              Cardinality({i \in 1..Len(keys) : keys[i] = k})
                  = Cardinality({i \in 1..Len(keys) : sorted[i] = k})
        /\ \A i \in 1..(Len(keys) - 1) :
              sorted[i] = sorted[i + 1] \/ BytesLess(sorted[i], sorted[i + 1])

RECURSIVE WeightedSum(_, _)
WeightedSum(points, i) ==
    IF i > Len(points) THEN 0
    ELSE i * (points[i] + 1) + WeightedSum(points, i + 1)

\* The aggregation coefficient of key X in the key list L: a hash of the list
\* as listed and of the key, never zero.
AggCoefficient(L, X) ==
    1 + ((WeightedSum(L, 1) + X) % (GroupOrder - 1))

RECURSIVE SumAggregated(_, _, _)
SumAggregated(L, coeffList, i) ==
    IF i > Len(L) THEN 0
    ELSE PointAdd(ScalarMulPoint(AggCoefficient(coeffList, L[i]), L[i]),
                  SumAggregated(L, coeffList, i + 1))

\* Variant: the keys are combined in the order they were listed.
aggregate_keys_unsorted(keys) ==
    LET pts == [i \in 1..Len(keys) |-> Point_from_bytes(keys[i]).val]
    IN [apk |-> SumAggregated(pts, pts, 1), list |-> pts]

\* aggregate_keys: the keys are put in canonical order, then combined.
aggregate_keys(keys) ==
    LET sorted == SortKeys(keys)
        pts == [i \in 1..Len(sorted) |-> Point_from_bytes(sorted[i]).val]
    IN [apk |-> SumAggregated(pts, pts, 1), list |-> pts]

RECURSIVE SumPoints(_, _)
SumPoints(points, i) ==
    IF i > Len(points) THEN 0
    ELSE PointAdd(points[i], SumPoints(points, i + 1))

\* aggregate_nonces: the sum of the revealed nonce points.
aggregate_nonces(Rs) == SumPoints(Rs, 1)

\* The TransactionContexts of agg-send-step-three: one, and one that differs
\* from it in each single field.
Contexts ==
    {[amount |-> 1, to |-> Pubkey(2), memo |-> "", recent_block_hash |-> 1],
     [amount |-> 2, to |-> Pubkey(2), memo |-> "", recent_block_hash |-> 1],
     [amount |-> 1, to |-> Pubkey(1), memo |-> "", recent_block_hash |-> 1],
     [amount |-> 1, to |-> Pubkey(2), memo |-> "memo", recent_block_hash |-> 1],
     [amount |-> 1, to |-> Pubkey(2), memo |-> "", recent_block_hash |-> 2]}

\* The participant set of a key list.
ParticipantSet(keys) == {keys[i] : i \in 1..Len(keys)}

\* Variant: the message leaves out the recipient and the recent block.
TxMessage_amount_memo(ctx, keys) ==
    (ctx.amount - 1) + 2 * (IF ctx.memo = "" THEN 0 ELSE 1)
        + 16 * (IF ParticipantSet(keys) = {Pubkey(p) : p \in Parties} THEN 0 ELSE 1)

\* The hash of the canonical bytes of a TransactionContext: recipient, amount,
\* memo, recent-block reference and participant set.  Collision-free: every
\* field has a digit of its own.
TxMessage(ctx, keys) ==
    (ctx.amount - 1) + 2 * (IF ctx.memo = "" THEN 0 ELSE 1)
        + 4 * (IF ctx.to = Pubkey(2) THEN 0 ELSE 1)
        + 8 * (ctx.recent_block_hash - 1)
        + 16 * (IF ParticipantSet(keys) = {Pubkey(p) : p \in Parties} THEN 0 ELSE 1)

\* The Schnorr challenge H(R_agg, PK_agg, message), one-to-one in the message.
Challenge(R_agg, apk, message) == (R_agg + 2 * apk + message) % GroupOrder

\* This party's scalar share: r + H(R_agg, PK_agg, m) * a_i * x_i.
partial_sign(r, sk, agg, R_agg, message) ==
    (r + Challenge(R_agg, agg.apk, message)
           * AggCoefficient(agg.list, BasePointMul(sk)) * sk) % GroupOrder

\* A signature is R (32 bytes) followed by s (32 bytes).
SignatureBytes(R, sv) == Point_to_bytes(R) \o Scalar_to_bytes(sv)
SigR(sig) == Point_from_bytes(Slice(sig, 0, 32)).val
SigS(sig) == Scalar_from_bytes(Slice(sig, 32, 64)).val

\* The scalar halves are summed, the nonce half of the first is kept.
CombineSignatures(sig1, sig2) ==
    SignatureBytes(SigR(sig1), (SigS(sig1) + SigS(sig2)) % GroupOrder)

\* Ed25519 verification of (R, s) under PK_agg: s*G = R + H(R, PK_agg, m)*PK_agg.
VerifySignature(sig, apk, message) ==
    BasePointMul(SigS(sig))
        = PointAdd(SigR(sig),
                   ScalarMulPoint(Challenge(SigR(sig), apk, message), apk))

(***************************************************************************)
(* The ceremony.  Every command is a separate invocation that keeps no     *)
(* state: what a round needs from the previous one is the printed value    *)
(* the user hands back, so each output is stored as its encoding decodes.  *)
(***************************************************************************)
\* A printed value as the next invocation reads it.
Relay(t, x) == deserialize(t, serialize(t, x).val, FALSE).val

\* Fresh randomness of Round 1: the nonce scalar and the blinding factor.
NonceDraws == {1, 2}
BlindDraws == {<<4>>}

\* A set of messages as a list, in a fixed order.
RECURSIVE AsSeq(_)
AsSeq(S) ==
    IF S = {} THEN <<>>
    ELSE LET x == CHOOSE y \in S : TRUE IN <<x>> \o AsSeq(S \ {x})

\* The first element of a list with the given sender, as a set of 0 or 1.
FromSender(msgs, key) ==
    LET at == {i \in 1..Len(msgs) : msgs[i].sender = key}
    IN IF at = {} THEN {}
       ELSE {msgs[CHOOSE i \in at : \A j \in at : i <= j]}

\* A SecondMessage with its reveal replaced by another valid reveal.
Tampered(m) ==
    {[m EXCEPT !.msg.R = PointNeg(m.msg.R)],
     [m EXCEPT !.msg.R = PointAdd(m.msg.R, 1)],
     [m EXCEPT !.msg.blind_factor = <<9>>]} \ {m}

\* The lists of SecondMessages party p can hand to Round 3: its own message
\* and the one received from the other party, which may have been altered.
SecondMessageLists(p) ==
    LET genuine == {q \in [Parties -> secondMsgs] :
                       \A i \in Parties : q[i].sender = Pubkey(i)}
        received(q) ==
            [i \in Parties |-> IF i = p THEN {q[i]} ELSE {q[i]} \cup Tampered(q[i])]
    IN UNION {{<<m1, m2>> : m1 \in received(q)[1], m2 \in received(q)[2]} :
                 q \in genuine}

PInit ==
    /\ firstMsgs = {}
    /\ secrets1 = {}
    /\ secondMsgs = {}
    /\ secrets2 = {}
    /\ sigs = {}
    /\ phase = [p \in Parties |-> "Start"]
    /\ aggOut = NoValue

\* agg-send-step-one: Round 1 (commit).
StepOne(p, r, bf) ==
    /\ Cardinality({s1 \in secrets1 : s1.owner = p}) < MaxSessions
    /\ \A s1 \in secrets1 : s1.secret.ephemeral.r # r
    /\ LET ephemeral == [r |-> r, R |-> BasePointMul(r)]
           second_msg == [R |-> ephemeral.R, blind_factor |-> bf]
           commitment == create_commitment_with_user_defined_randomness(
                             Point_y_coord(ephemeral.R), bf)
           first == [msg |-> [commitment |-> commitment], sender |-> Pubkey(p)]
           secret == [ephemeral |-> ephemeral, second_msg |-> second_msg]
       IN /\ firstMsgs' = firstMsgs \cup {Relay("AggMessage1", first)}
          /\ secrets1' = secrets1 \cup
                {[owner |-> p, secret |-> Relay("SecretAggStepOne", secret)]}
    /\ phase' = [phase EXCEPT ![p] = IF @ = "Start" THEN "Committed" ELSE @]
    /\ UNCHANGED <<secondMsgs, secrets2, sigs, aggOut, cvars, hvars>>

\* agg-send-step-two: Round 2 (reveal).  The first messages are carried
\* forward as given; nothing is checked at this stage.
StepTwo(p, first_messages, s1) ==
    /\ s1 \in secrets1 /\ s1.owner = p
    /\ Cardinality(secrets2) < MaxStepTwo
    /\ LET second == [msg |-> s1.secret.second_msg, sender |-> Pubkey(p)]
           secret == [ephemeral |-> s1.secret.ephemeral,
                      first_messages |-> first_messages]
       IN /\ secondMsgs' = secondMsgs \cup {Relay("AggMessage2", second)}
          /\ secrets2' = secrets2 \cup
                {[owner |-> p, secret |-> Relay("SecretAggStepTwo", secret)]}
    /\ phase' = [phase EXCEPT ![p] = IF @ = "Committed" THEN "Revealed" ELSE @]
    /\ UNCHANGED <<firstMsgs, secrets1, sigs, aggOut, cvars, hvars>>

\* Step 1 of Round 3: every participant's reveal opens its commitment.
CommitmentsOpen(keys, second_messages, secret) ==
    \A i \in 1..Len(keys) :
        /\ FromSender(secret.first_messages, keys[i]) # {}
        /\ FromSender(second_messages, keys[i]) # {}
        /\ \A fm \in FromSender(secret.first_messages, keys[i]) :
           \A sm \in FromSender(second_messages, keys[i]) :
              verify_commitment(fm, sm)

\* Round 3 (sign): the partial signature, or the abort of the round.
step_three(p, ctx, keys, second_messages, secret) ==
    IF ~CommitmentsOpen(keys, second_messages, secret)
    THEN [tag |-> "CommitmentMismatch"]
    ELSE LET R_agg == aggregate_nonces(
                         [i \in 1..Len(second_messages) |->
                             second_messages[i].msg.R])
             agg == aggregate_keys(keys)
             sv == partial_sign(secret.ephemeral.r, SecretKey(p), agg,
                                R_agg, TxMessage(ctx, keys))
         IN Ok(SignatureBytes(R_agg, sv))

\* agg-send-step-three
StepThree(p, ctx, keys, second_messages, s2) ==
    /\ s2 \in secrets2 /\ s2.owner = p
    /\ Cardinality(sigs) < MaxStepThree
    /\ LET res == step_three(p, ctx, keys, second_messages, s2.secret)
           out == IF res.tag = "Ok"
                  THEN Ok(Relay("PartialSignature", res.val))
                  ELSE res
       IN /\ sigs' = sigs \cup
                {[party |-> p, ctx |-> ctx, keys |-> keys,
                  second_messages |-> second_messages,
                  secret |-> s2.secret,
                  agg_key |-> Point_to_bytes(aggregate_keys(keys).apk),
                  result |-> out]}
          /\ phase' = [phase EXCEPT ![p] =
                          IF @ = "Revealed" /\ res.tag = "Ok" THEN "Signed" ELSE @]
    /\ UNCHANGED <<firstMsgs, secrets1, secondMsgs, secrets2, aggOut, cvars, hvars>>

\* aggregate-keys: prints the aggregate key of the listed keys.
AggregateKeys(keys) ==
    /\ aggOut' = [keys |-> keys, key |-> Point_to_bytes(aggregate_keys(keys).apk)]
    /\ aggOut' # aggOut
    /\ UNCHANGED <<firstMsgs, secrets1, secondMsgs, secrets2, sigs, phase,
                   cvars, hvars>>

PNext ==
    \/ \E p \in Parties : \E r \in NonceDraws : \E bf \in BlindDraws :
          StepOne(p, r, bf)
    \/ /\ Cardinality(secrets2) < MaxStepTwo
       /\ \E s1 \in secrets1 : \E fms \in SUBSET firstMsgs :
             StepTwo(s1.owner, AsSeq(fms), s1)
    \/ /\ Cardinality(sigs) < MaxStepThree
       /\ \E s2 \in secrets2 : \E sms \in SecondMessageLists(s2.owner) :
          \E ctx \in Contexts : \E keys \in KeyLists :
             StepThree(s2.owner, ctx, keys, sms, s2)
    \/ \E keys \in KeyLists : AggregateKeys(keys)

(***************************************************************************)
(* Specifications.                                                         *)
(***************************************************************************)
Init == PInit /\ CodecInit /\ CommitInit

\* The ceremony.
Next == PNext
Spec == Init /\ [][Next]_vars

\* The wire codec exercised on its own.
SpecCodec == Init /\ [][CodecNext]_vars

\* The commitment scheme exercised on its own.
SpecCommit == Init /\ [][CommitNext]_vars

(***************************************************************************)
(* Properties of the wire codec (SpecCodec).                               *)
(***************************************************************************)
\* The sizes the specification's layout table gives.
TableMinSize(t) ==
    CASE t = "AggMessage1" -> 96
      [] t = "AggMessage2" -> 128
      [] t = "PartialSignature" -> 64
      [] t = "SecretAggStepOne" -> 160
      [] t = "SecretAggStepTwo" -> 72

\* A buffer was deserialized directly (not through its base-58 text).
DecodedBinary == cres # NoResult /\ cstage # "text"

\* C3: round trip.  A value of any of the five types that is serialized and
\* deserialized again, directly or through its base-58 text, comes back Ok and
\* equal to the original in every field, the list of first messages element
\* by element and in order.
C3_RoundTrip ==
    (cres # NoResult /\ cstage \in {"serialized", "text"}) =>
        /\ cres.tag = "Ok"
        /\ cres.val = cval
        /\ ctype = "SecretAggStepTwo" =>
              /\ cres.val.ephemeral.r = cval.ephemeral.r
              /\ cres.val.ephemeral.R = cval.ephemeral.R
              /\ Len(cres.val.first_messages) = Len(cval.first_messages)
              /\ \A i \in 1..Len(cval.first_messages) :
                    /\ cres.val.first_messages[i].msg.commitment
                          = cval.first_messages[i].msg.commitment
                    /\ cres.val.first_messages[i].sender
                          = cval.first_messages[i].sender
        /\ ctype = "SecretAggStepOne" =>
              /\ cres.val.ephemeral.r = cval.ephemeral.r
              /\ cres.val.ephemeral.R = cval.ephemeral.R
              /\ cres.val.second_msg.R = cval.second_msg.R
              /\ cres.val.second_msg.blind_factor = cval.second_msg.blind_factor

\* A session secret with two first messages came back from its base-58 text.
C3_Witness ==
    /\ cstage = "text"
    /\ ctype = "SecretAggStepTwo"
    /\ cres.tag = "Ok"
    /\ Len(cres.val.first_messages) = 2
    /\ cres.val.first_messages[1] # cres.val.first_messages[2]

\* C4: short-buffer rejection.  For each of the five types, a buffer shorter
\* than the type's minimum size is rejected with InputTooShort carrying the
\* minimum size as expected and the buffer length as found, whatever its bytes.
C4_ShortBufferRejected ==
    (DecodedBinary /\ Len(cbuf) < TableMinSize(ctype)) =>
        cres = InputTooShort(Usize(TableMinSize(ctype)), Usize(Len(cbuf)))

\* A 159-byte buffer of 0xff bytes was rejected as a SecretAggStepOne.
C4_Witness ==
    /\ DecodedBinary
    /\ ctype = "SecretAggStepOne"
    /\ cbuf = Fill(159, 255)
    /\ cres.tag = "InputTooShort"

\* The exact value 72 + c * 96 for the count field c of a buffer, as nine
\* little-endian bytes: nothing is lost to the 64-bit word.
RequiredLength(b) ==
    LET c == Slice(b, 64, 72) \o <<0>>
    IN UsizeAdd(UsizeMul(c, 96).val, LeBytes(72, 9)).val

\* C9: for a SecretAggStepTwo buffer of at least 72 bytes with a valid scalar
\* and point and any count field c, a length below 72 + c * 96 is rejected with
\* InputTooShort carrying expected = 72 + c * 96 (in the 64-bit word) and
\* found = the length.  Stated for the result of a build that wraps on overflow.
C9_CountLengthChecked ==
    (/\ DecodedBinary
     /\ ctype = "SecretAggStepTwo"
     /\ Len(cbuf) >= 72
     /\ Scalar_from_bytes(Slice(cbuf, 0, 32)).tag = "Ok"
     /\ Point_from_bytes(Slice(cbuf, 32, 64)).tag = "Ok"
     /\ cres = SecretAggStepTwo_deserialize(cbuf, FALSE)
     /\ UsizeLess(LeBytes(Len(cbuf), 9), RequiredLength(cbuf)))
    => cres = InputTooShort(Slice(RequiredLength(cbuf), 0, 8), Usize(Len(cbuf)))

\* The size of the encoding a buffer starts with.
EncodedSize(t, b) ==
    IF t = "SecretAggStepTwo"
    THEN 72 + UsizeSmall(Slice(b, 64, 72)) * 96
    ELSE TableMinSize(t)

\* C10: trailing bytes are ignored.  A buffer longer than the encoding it
\* starts with deserializes to the same result as the encoding alone, and the
\* decoded value serializes back to exactly that encoding.
C10_TrailingBytesIgnored ==
    (/\ DecodedBinary
     /\ Len(cbuf) >= TableMinSize(ctype)
     /\ ctype = "SecretAggStepTwo" => UsizeIsSmall(Slice(cbuf, 64, 72))
     /\ Len(cbuf) > EncodedSize(ctype, cbuf))
    => LET encoding == Slice(cbuf, 0, EncodedSize(ctype, cbuf))
       IN /\ cres = deserialize(ctype, encoding, FALSE)
          /\ cres.tag = "Ok" => serialize(ctype, cres.val) = Ok(encoding)

(***************************************************************************)
(* Properties of the commitment scheme (SpecCommit).                       *)
(***************************************************************************)
\* C2: the commitment opens with the committed (R, blind_factor) and with no
\* other pair.
C2_CommitmentBinding ==
    opened # NoValue =>
        (opened.ok <=> /\ opened.R = committed.R
                       /\ opened.blind_factor = committed.blind_factor)

\* A commitment was opened by the negation of the point it was made for,
\* with the committed blinding factor.
C2_Witness ==
    /\ opened # NoValue
    /\ opened.ok
    /\ opened.R # committed.R
    /\ opened.R = PointNeg(committed.R)
    /\ opened.blind_factor = committed.blind_factor

(***************************************************************************)
(* Properties of the ceremony (Spec).                                      *)
(***************************************************************************)
\* The FirstMessage a Round 1 session published.
FirstMessageOf(s1) ==
    [msg |-> [commitment |->
                 create_commitment_with_user_defined_randomness(
                     Point_y_coord(s1.secret.second_msg.R),
                     s1.secret.second_msg.blind_factor)],
     sender |-> Pubkey(s1.owner)]

\* The SecondMessage a Round 1 session prepared for Round 2.
SecondMessageOf(s1) ==
    [msg |-> s1.secret.second_msg, sender |-> Pubkey(s1.owner)]

\* The (R, blind_factor) pairs committed to by a FirstMessage.
CommittedPairs(fm) ==
    {s1.secret.second_msg : s1 \in {s \in secrets1 : FirstMessageOf(s) = fm}}

\* Round 3 entry e was given, for some participant, a reveal other than the
\* one committed to in the FirstMessage held in its session secret.
TamperedReveal(e) ==
    \E i \in 1..Len(e.keys) :
    \E fm \in FromSender(e.secret.first_messages, e.keys[i]) :
    \E sm \in FromSender(e.second_messages, e.keys[i]) :
        /\ CommittedPairs(fm) # {}
        /\ sm.msg \notin CommittedPairs(fm)

\* C1: Round 3 never produces a PartialSignature when, for some participant,
\* the supplied SecondMessage carries an (R, blind_factor) pair different from
\* the pair committed to in the FirstMessage of the session secret: the round
\* aborts and the party does not reach Signed.
C1_TamperedRevealAborts ==
    \A e \in sigs : TamperedReveal(e) => e.result.tag # "Ok"

\* C5: no ephemeral scalar r has produced PartialSignatures over two different
\* TransactionContexts, and no two Round 1 invocations yielded the same r.
C5_NonceSingleUse ==
    /\ \A e1 \in sigs : \A e2 \in sigs :
          (/\ e1.result.tag = "Ok"
           /\ e2.result.tag = "Ok"
           /\ e1.secret.ephemeral.r = e2.secret.ephemeral.r)
          => e1.ctx = e2.ctx
    /\ \A a \in secrets1 : \A b \in secrets1 :
          a # b => a.secret.ephemeral.r # b.secret.ephemeral.r

\* C6: commit before reveal.  A party is in a phase only after the phases
\* before it, and a party that has emitted its SecondMessage has emitted its
\* own FirstMessage and held, in its Round 2 input, a FirstMessage from every
\* participant, itself included.
C6_CommitBeforeReveal ==
    /\ \A p \in Parties :
          /\ phase[p] # "Start" => \E s1 \in secrets1 : s1.owner = p
          /\ phase[p] \in {"Revealed", "Signed"} =>
                \E s2 \in secrets2 : s2.owner = p
    /\ \A s2 \in secrets2 :
          /\ \E fm \in firstMsgs : fm.sender = Pubkey(s2.owner)
          /\ \A q \in Parties :
                FromSender(s2.secret.first_messages, Pubkey(q)) # {}

\* Round 3 entry e was run honestly on unaltered messages: its session secret
\* is the party's own, and the FirstMessage and SecondMessage of every
\* participant are those of one Round 1 session of that participant.
HonestInputs(e) ==
    \E sess \in [Parties -> secrets1] :
        /\ \A q \in Parties :
              /\ sess[q].owner = q
              /\ FromSender(e.secret.first_messages, Pubkey(q))
                    = {FirstMessageOf(sess[q])}
              /\ FromSender(e.second_messages, Pubkey(q))
                    = {SecondMessageOf(sess[q])}
        /\ Len(e.secret.first_messages) = Cardinality(Parties)
        /\ Len(e.second_messages) = Cardinality(Parties)
        /\ e.secret.ephemeral = sess[e.party].secret.ephemeral

\* Two honest Round 3 entries of different parties in one ceremony.
HonestPair(e1, e2) ==
    /\ e1.party # e2.party
    /\ HonestInputs(e1)
    /\ HonestInputs(e2)
    /\ e1.second_messages = e2.second_messages

\* C7: end-to-end ceremony.  Honest Round 3 runs succeed whatever the
\* context; the PartialSignatures of one ceremony carry the same R_agg, and
\* their combination validates against PK_agg and the hashed context exactly
\* when the parties supplied the same TransactionContext: a difference in
\* any one field (amount, recipient, memo, recent block) makes it fail.
C7_EndToEnd ==
    /\ \A e \in sigs : HonestInputs(e) => e.result.tag = "Ok"
    /\ \A e1 \in sigs : \A e2 \in sigs :
          HonestPair(e1, e2) =>
             /\ SigR(e1.result.val) = SigR(e2.result.val)
             /\ VerifySignature(
                    CombineSignatures(e1.result.val, e2.result.val),
                    aggregate_keys(e1.keys).apk,
               TxMessage(e1.ctx, e1.keys))
                   <=> e1.ctx = e2.ctx

\* Both parties signed one context honestly and the combination validates.
C7_Witness ==
    \E e1 \in sigs : \E e2 \in sigs :
        /\ HonestPair(e1, e2)
        /\ e1.ctx = e2.ctx
        /\ e1.result.tag = "Ok"
        /\ e2.result.tag = "Ok"
        /\ VerifySignature(
               CombineSignatures(e1.result.val, e2.result.val),
               aggregate_keys(e1.keys).apk,
               TxMessage(e1.ctx, e1.keys))

\* C8: key aggregation is order-independent.  The key printed by
\* aggregate-keys is the same for every ordering of the key list, and the
\* aggregate key a Round 3 run used equals the printed one.
C8_AggregationOrderIndependent ==
    aggOut # NoValue =>
        /\ \A keys \in KeyLists :
              aggOut.key = Point_to_bytes(aggregate_keys(keys).apk)
        /\ \A e \in sigs : e.agg_key = aggOut.key

\* aggregate-keys printed the key for one ordering and a Round 3 run that
\* produced a PartialSignature listed the keys in the other.
C8_Witness ==
    /\ aggOut # NoValue
    /\ \E e \in sigs :
          /\ e.result.tag = "Ok"
          /\ e.keys # aggOut.keys
====
